---- MODULE Spec2Model ----
(***************************************************************************)
(* Model of findLongest.cpp: build a word store from the lines of a file   *)
(* (hashStringFile), then scan it longest-first for words made of other    *)
(* words (findLongestWordsOfWords / wordIsMadeOfOtherWords).               *)
(*                                                                         *)
(* A std::string is a sequence of character codes (ASCII), so strcmp and   *)
(* tolower compute on the same numbers the program does.  The string set   *)
(* is a set of such sequences.  The length map holds, per length key, the  *)
(* vector of std::string* in push_back order; a pointer into an            *)
(* unordered_set stays valid for the life of the element and elements are  *)
(* never erased, so a pointer is modelled by the word it points to.        *)
(***************************************************************************)
EXTENDS Integers, Sequences, FiniteSets, TLC

\* ------------------------------------------------------------------ bounds
\* Lines read from the input file by one run of the program.
MaxLines == 4
\* Longest word handed to wordIsMadeOfOtherWords in the engine specification.
MaxLen == 3
\* Longest line handed to cleanWord in the cleaning specification.
MaxRaw == 3

\* ------------------------------------------------------- character codes
LF == 10
CR == 13
SPACE == 32
\* The letters the model's words are written with.
Letter == [a |-> 97, b |-> 98, z |-> 122]

Alphabet == {Letter.a, Letter.b}

Min(a, b) == IF a < b THEN a ELSE b

\* std::string::substr(pos, n): n characters from 0-based pos, cut at the end.
substr(s, pos, n) == SubSeq(s, pos + 1, Min(pos + n, Len(s)))

\* std::string::replace(pos, n, ""): erases n characters from pos, cut at the end.
eraseAt(s, pos, n) == SubSeq(s, 1, pos) \o SubSeq(s, pos + Min(n, Len(s) - pos) + 1, Len(s))

\* --------------------------------------------------------------- cleanWord
tolower(c) == IF c >= 65 /\ c <= 90 THEN c + 32 ELSE c

toLowerString(s) == [i \in 1..Len(s) |-> tolower(s[i])]

RECURSIVE trimEndOfLine(_)
trimEndOfLine(s) ==
    IF s # <<>> /\ (s[Len(s)] = LF \/ s[Len(s)] = CR)
    THEN trimEndOfLine(SubSeq(s, 1, Len(s) - 1))
    ELSE s

\* The while loop of trimLeadingWhitespace: the last value of `end`.
RECURSIVE leadingEnd(_, _, _)
leadingEnd(s, current, end) ==
    IF current < Len(s) /\ s[current + 1] = SPACE
    THEN leadingEnd(s, current + 1, current)
    ELSE end

trimLeadingWhitespace(s) ==
    IF Len(s) > 0
    THEN LET end == leadingEnd(s, 0, -1)
         IN  IF end >= 0 THEN eraseAt(s, 0, end + 1) ELSE s
    ELSE s

\* The while loop of trimTrailingWhitespace: the last value of `end`.
RECURSIVE trailingEnd(_, _, _)
trailingEnd(s, current, end) ==
    IF current >= 0 /\ s[current + 1] = SPACE
    THEN trailingEnd(s, current - 1, current)
    ELSE end

trimTrailingWhitespace(s) ==
    IF Len(s) > 0
    THEN LET end == trailingEnd(s, Len(s) - 1, -1)
         IN  IF end >= 0 THEN eraseAt(s, end, Len(s) - 1) ELSE s
    ELSE s

cleanWord(s) == toLowerString(trimTrailingWhitespace(trimLeadingWhitespace(trimEndOfLine(s))))

\* ------------------------------------------------- wordIsMadeOfOtherWords
RECURSIVE wordIsMadeOfOtherWords(_, _)
RECURSIVE wordLoop(_, _, _, _)

\* A loop body that returns the result of the recursive call as it is,
\* without going on to the shorter prefixes when the call fails.
wordLoopReturnsCall(word, set, sublen, remlen) ==
    IF sublen > 0
    THEN IF substr(word, 0, sublen) \in set
         THEN LET remainingString == substr(word, sublen, remlen)
              IN  IF remainingString \in set
                  THEN TRUE
                  ELSE wordIsMadeOfOtherWords(remainingString, set)
         ELSE wordLoop(word, set, sublen - 1, remlen + 1)
    ELSE FALSE

\* The while loop, from the iteration that starts with (sublen, remlen).
wordLoop(word, set, sublen, remlen) ==
    IF sublen > 0
    THEN LET partWord == substr(word, 0, sublen)
         IN  IF partWord \in set
             THEN LET remainingString == substr(word, sublen, remlen)
                  IN  IF remainingString \in set
                      THEN TRUE
                      ELSE IF wordIsMadeOfOtherWords(remainingString, set)
                           THEN TRUE
                           ELSE wordLoop(word, set, sublen - 1, remlen + 1)
             ELSE wordLoop(word, set, sublen - 1, remlen + 1)
    ELSE FALSE

wordIsMadeOfOtherWords(word, set) == wordLoop(word, set, Len(word) - 1, 1)

\* ------------------------------------------------ buckets and their order
\* strcmp on the words' C strings: characters compare by their codes, and
\* a string that is a proper prefix of another compares lower.
RECURSIVE strcmp(_, _)
strcmp(a, b) ==
    IF a = <<>> /\ b = <<>> THEN 0
    ELSE IF a = <<>> THEN -1
    ELSE IF b = <<>> THEN 1
    ELSE IF Head(a) < Head(b) THEN -1
    ELSE IF Head(a) > Head(b) THEN 1
    ELSE strcmp(Tail(a), Tail(b))

\* A comparator that hands strcmp's integer to std::sort as the boolean.
sizeHashSortFunctionReturnsInt(a, b) == strcmp(a, b) # 0

sizeHashSortFunction(a, b) == strcmp(a, b) < 0

\* std::sort(first, last, sizeHashSortFunction) on one bucket.  The words
\* of a bucket are distinct, so the comparator orders them totally and the
\* sorted vector does not depend on the sorting algorithm; it is computed
\* here by insertion.
RECURSIVE sortInsert(_, _)
sortInsert(x, s) ==
    IF s = <<>> THEN <<x>>
    ELSE IF sizeHashSortFunction(x, Head(s)) THEN <<x>> \o s
    ELSE <<Head(s)>> \o sortInsert(x, Tail(s))

RECURSIVE stdSort(_)
stdSort(s) ==
    IF s = <<>> THEN <<>>
    ELSE sortInsert(s[Len(s)], stdSort(SubSeq(s, 1, Len(s) - 1)))

\* std::sort(keyVector.begin(), keyVector.end()): the keys in ascending order.
RECURSIVE sortKeys(_)
RECURSIVE sortKeysDescending(_)
\* A key sort with the comparison turned round.
sortKeysDescending(keys) ==
    IF keys = {} THEN <<>>
    ELSE LET m == CHOOSE k \in keys : \A j \in keys : k >= j
         IN  <<m>> \o sortKeys(keys \ {m})

sortKeys(keys) ==
    IF keys = {} THEN <<>>
    ELSE LET m == CHOOSE k \in keys : \A j \in keys : k <= j
         IN  <<m>> \o sortKeys(keys \ {m})

\* An extraction that sorts no bucket, whatever the flag says.
extractNeverSorts(sizeHash, doPreSort) ==
    [keyVector |-> sortKeys(DOMAIN sizeHash), sizeHash |-> sizeHash]

\* An extraction that sorts every bucket, whatever the flag says.
extractAlwaysSorts(sizeHash, doPreSort) ==
    [keyVector |-> sortKeys(DOMAIN sizeHash),
     sizeHash  |-> [k \in DOMAIN sizeHash |-> stdSort(sizeHash[k])]]

\* extractAndSortKeysFromSizeHash: the key vector it fills and the map it
\* leaves behind (each bucket sorted in place when kDoPreSort is set).
extractAndSortKeysFromSizeHash(sizeHash, doPreSort) ==
    [keyVector |-> sortKeys(DOMAIN sizeHash),
     sizeHash  |-> IF doPreSort
                   THEN [k \in DOMAIN sizeHash |-> stdSort(sizeHash[k])]
                   ELSE sizeHash]

\* ------------------------------------------------ findLongestWordsOfWords
\* The locals of findLongestWordsOfWords after the call to
\* extractAndSortKeysFromSizeHash and the start of the outer loop.
\* `tried` is the sequence of "Trying word" lines of the debug output.
flEnter(keyList) ==
    [keyList       |-> keyList,
     keyListIndex  |-> Len(keyList) - 1,
     wordListIndex |-> 0,
     firstWord     |-> <<>>,
     secondWord    |-> <<>>,
     firstFound    |-> FALSE,
     secondFound   |-> FALSE,
     countFound    |-> 0,
     tried         |-> <<>>]

\* wordList of the current outer iteration: (*sizeHash)[keyList[keyListIndex]].
flWordList(fl, sizeHash) == sizeHash[fl.keyList[fl.keyListIndex + 1]]

flInInner(fl, sizeHash) ==
    fl.keyListIndex >= 0 /\ fl.wordListIndex < Len(flWordList(fl, sizeHash))

\* A loop body that stops counting once both words have been recorded.
flTestWordStopsAtTwo(fl, set, sizeHash) ==
    LET word  == flWordList(fl, sizeHash)[fl.wordListIndex + 1]
        match == wordIsMadeOfOtherWords(word, set)
        f0    == [fl EXCEPT !.tried = Append(@, word), !.wordListIndex = @ + 1]
    IN  IF match /\ ~fl.secondFound
        THEN IF ~fl.firstFound
             THEN [f0 EXCEPT !.countFound = @ + 1, !.firstWord = word, !.firstFound = TRUE]
             ELSE [f0 EXCEPT !.countFound = @ + 1, !.secondWord = word, !.secondFound = TRUE]
        ELSE f0

\* One iteration of the inner loop: test the word at wordListIndex.
flTestWord(fl, set, sizeHash) ==
    LET word  == flWordList(fl, sizeHash)[fl.wordListIndex + 1]
        match == wordIsMadeOfOtherWords(word, set)
        f0    == [fl EXCEPT !.tried = Append(@, word), !.wordListIndex = @ + 1]
        f1    == IF match THEN [f0 EXCEPT !.countFound = @ + 1] ELSE f0
    IN  IF match /\ ~fl.secondFound
        THEN IF ~fl.firstFound
             THEN [f1 EXCEPT !.firstWord = word, !.firstFound = TRUE]
             ELSE [f1 EXCEPT !.secondWord = word, !.secondFound = TRUE]
        ELSE f1

\* The inner loop is exhausted: keyListIndex-- and the next bucket, if any.
flNextKey(fl) == [fl EXCEPT !.keyListIndex = @ - 1, !.wordListIndex = 0]

RECURSIVE flRun(_, _, _)
flRun(fl, set, sizeHash) ==
    IF fl.keyListIndex < 0 THEN fl
    ELSE IF flInInner(fl, sizeHash)
         THEN flRun(flTestWord(fl, set, sizeHash), set, sizeHash)
         ELSE flRun(flNextKey(fl), set, sizeHash)

\* One whole call: the returned count, the two output strings, and the map
\* as the call leaves it.
findLongestWordsOfWords(set, sizeHash, doPreSort) ==
    LET ex == extractAndSortKeysFromSizeHash(sizeHash, doPreSort)
        fl == flRun(flEnter(ex.keyVector), set, ex.sizeHash)
    IN  [count      |-> fl.countFound,
         firstWord  |-> fl.firstWord,
         secondWord |-> fl.secondWord,
         tried      |-> fl.tried,
         sizeHash   |-> ex.sizeHash]

\* ----------------------------------------------------------- hashStringFile
\* A loop body that takes a repeated word for a newly inserted one.
hashLineIgnoresInsertResult(set, sizeHash, rawLine) ==
    LET line    == cleanWord(rawLine)
        lineLen == Len(line)
    IN  IF lineLen > 0
        THEN [ok |-> TRUE, stringSet |-> set \cup {line},
              sizeHash |-> [k \in DOMAIN sizeHash \cup {lineLen} |->
                              IF k = lineLen
                              THEN Append(IF k \in DOMAIN sizeHash THEN sizeHash[k] ELSE <<>>, line)
                              ELSE sizeHash[k]]]
        ELSE [ok |-> TRUE, stringSet |-> set, sizeHash |-> sizeHash]

\* The body of the getline loop for one line: the set and the map after it,
\* and ok = FALSE when the function returns false at this line.
hashLine(set, sizeHash, rawLine) ==
    LET line    == cleanWord(rawLine)
        lineLen == Len(line)
    IN  IF lineLen > 0
        THEN IF line \notin set
             THEN [ok |-> TRUE, stringSet |-> set \cup {line},
                   sizeHash |-> [k \in DOMAIN sizeHash \cup {lineLen} |->
                                   IF k = lineLen
                                   THEN Append(IF k \in DOMAIN sizeHash THEN sizeHash[k] ELSE <<>>, line)
                                   ELSE sizeHash[k]]]
             ELSE [ok |-> FALSE, stringSet |-> set, sizeHash |-> sizeHash]
        ELSE [ok |-> TRUE, stringSet |-> set, sizeHash |-> sizeHash]

EmptyMap == [k \in {} |-> <<>>]

\* hashStringFile on a whole file, given as the sequence of its lines.
RECURSIVE hashFrom(_, _, _)
hashFrom(set, sizeHash, lines) ==
    IF lines = <<>> THEN [ok |-> TRUE, stringSet |-> set, sizeHash |-> sizeHash]
    ELSE LET r == hashLine(set, sizeHash, Head(lines))
         IN  IF r.ok THEN hashFrom(r.stringSet, r.sizeHash, Tail(lines)) ELSE r

hashStringFile(lines) == hashFrom({}, EmptyMap, lines)

\* -------------------------------------------------------------- the inputs
\* The words the input file is written with.
Vocabulary ==
    { <<Letter.a>>, <<Letter.b>>,
      <<Letter.a, Letter.a>>, <<Letter.a, Letter.b>>, <<Letter.b, Letter.a>>,
      <<Letter.a, Letter.a, Letter.a>>, <<Letter.a, Letter.a, Letter.b>>,
      <<Letter.a, Letter.a, Letter.a, Letter.a>> }

toUpperString(s) == [i \in 1..Len(s) |-> IF s[i] >= 97 /\ s[i] <= 122 THEN s[i] - 32 ELSE s[i]]

\* The ways a word is written on a line of the file (getline has removed
\* the line feed): as it is, indented, followed by a space, followed by a
\* carriage return, in upper case.
RawForms(w) == {w, <<SPACE>> \o w, w \o <<SPACE>>, w \o <<CR>>, toUpperString(w)}

Lines == UNION {RawForms(w) : w \in Vocabulary \cup {<<>>}}

\* ------------------------------------------------------------------- state
VARIABLES
    kDoPreSort,   \* the -s option
    pc,           \* where main is
    lineNo,       \* lines read by getline so far
    line,         \* hashStringFile's line, after cleanWord
    fileWords,    \* the non-empty cleaned lines read so far, in file order
    stringSet,    \* *stringSet
    sizeHash,     \* *sizeHash: length |-> vector of words
    hashReturn,   \* what hashStringFile returned: "none" while it runs
    fl,           \* the locals of findLongestWordsOfWords
    printed,      \* the lines printed so far
    word,         \* engine specification: the word under test
    stack,        \* engine specification: the frames of wordIsMadeOfOtherWords
    ret           \* engine specification: "true" or "false" while a call returns, else "none"

vars == <<kDoPreSort, pc, lineNo, line, fileWords, stringSet, sizeHash,
          hashReturn, fl, printed, word, stack, ret>>

engineVars == <<word, stack, ret>>
storeVars == <<stringSet, sizeHash>>

\* ------------------------------------------------------------------- main
\* main with a hashStringFile result treated as always true.
mainAfterHashAlwaysScans(ok) == "call"

\* main, line 476: the scan runs only when hashStringFile returned true.
mainAfterHash(ok) == IF ok THEN "call" ELSE "done"

Init ==
    /\ kDoPreSort \in BOOLEAN
    /\ pc = "hash"
    /\ lineNo = 0
    /\ line = <<>>
    /\ fileWords = <<>>
    /\ stringSet = {}
    /\ sizeHash = EmptyMap
    /\ hashReturn = "none"
    /\ fl = flEnter(<<>>)
    /\ printed = <<>>
    /\ word = <<>>
    /\ stack = <<>>
    /\ ret = "none"

\* One iteration of the getline loop of hashStringFile.
ReadLine ==
    /\ pc = "hash"
    /\ lineNo < MaxLines
    /\ \E rawLine \in Lines :
          LET r == hashLine(stringSet, sizeHash, rawLine)
              cleaned == cleanWord(rawLine)
          IN  /\ line' = cleaned
              /\ lineNo' = lineNo + 1
              /\ stringSet' = r.stringSet
              /\ sizeHash' = r.sizeHash
              /\ fileWords' = IF Len(cleaned) > 0 THEN Append(fileWords, cleaned) ELSE fileWords
              /\ IF r.ok
                 THEN /\ UNCHANGED <<pc, hashReturn, printed>>
                 ELSE /\ hashReturn' = "false"
                      /\ printed' = Append(printed, [kind |-> "error"])
                      /\ pc' = mainAfterHash(FALSE)
    /\ UNCHANGED <<kDoPreSort, fl>>
    /\ UNCHANGED engineVars

\* getline fails at the end of the file: hashStringFile returns true.
EndOfFile ==
    /\ pc = "hash"
    /\ hashReturn' = "true"
    /\ line' = <<>>
    /\ pc' = mainAfterHash(TRUE)
    /\ UNCHANGED <<kDoPreSort, lineNo, fileWords, stringSet, sizeHash, fl, printed>>
    /\ UNCHANGED engineVars

\* main calls findLongestWordsOfWords: lines 327-335.
FLCall ==
    /\ pc = "call"
    /\ LET ex == extractAndSortKeysFromSizeHash(sizeHash, kDoPreSort)
       IN  /\ sizeHash' = ex.sizeHash
           /\ fl' = flEnter(ex.keyVector)
    /\ pc' = "scan"
    /\ UNCHANGED <<kDoPreSort, lineNo, line, fileWords, stringSet, hashReturn, printed>>
    /\ UNCHANGED engineVars

\* One iteration of the inner loop.
FLTestWord ==
    /\ pc = "scan"
    /\ flInInner(fl, sizeHash)
    /\ fl' = flTestWord(fl, stringSet, sizeHash)
    /\ UNCHANGED <<kDoPreSort, pc, lineNo, line, fileWords, stringSet, sizeHash, hashReturn, printed>>
    /\ UNCHANGED engineVars

\* The inner loop ends: the outer loop goes to the next shorter length.
FLNextKey ==
    /\ pc = "scan"
    /\ fl.keyListIndex >= 0
    /\ ~flInInner(fl, sizeHash)
    /\ fl' = flNextKey(fl)
    /\ UNCHANGED <<kDoPreSort, pc, lineNo, line, fileWords, stringSet, sizeHash, hashReturn, printed>>
    /\ UNCHANGED engineVars

\* The outer loop ends: findLongestWordsOfWords returns and main prints.
FLReturn ==
    /\ pc = "scan"
    /\ fl.keyListIndex < 0
    /\ printed' = Append(printed, [kind |-> "result", firstWord |-> fl.firstWord,
                                   secondWord |-> fl.secondWord, count |-> fl.countFound])
    /\ pc' = "done"
    /\ UNCHANGED <<kDoPreSort, lineNo, line, fileWords, stringSet, sizeHash, hashReturn, fl>>
    /\ UNCHANGED engineVars

Next == ReadLine \/ EndOfFile \/ FLCall \/ FLTestWord \/ FLNextKey \/ FLReturn

Spec == Init /\ [][Next]_vars

\* ------------------------------- wordIsMadeOfOtherWords, one step at a time
\* The words handed to wordIsMadeOfOtherWords in the engine specification.
EngineWords == UNION {[1..n -> Alphabet] : n \in 1..MaxLen}

\* Every string wordIsMadeOfOtherWords looks up is a substring of its
\* argument, so the stores that differ on the argument's substrings are
\* all the stores there are for it; a member that is no substring of the
\* argument is added to show it changes nothing.
Pieces(w) == {SubSeq(w, i, j) : i \in 1..Len(w), j \in 1..Len(w)} \ {<<>>}

EngineStores(w) ==
    {p \cup f : p \in SUBSET Pieces(w), f \in SUBSET {w \o <<Letter.z>>}}

\* A call that starts with the whole word as the primary substring.
engineFrameFullWord(w) == [word |-> w, sublen |-> Len(w), remlen |-> 1, tries |-> 0]

\* The frame of a call, lines 250-251.  `tries` counts the prefixes the
\* call has looked up (the "Testing partial word" lines of the debug output).
engineFrame(w) == [word |-> w, sublen |-> Len(w) - 1, remlen |-> 1, tries |-> 0]

\* A caller that returns whatever the recursive call returned.
engineAfterCallReturnsCall(frame, v) == [frame |-> frame, ret |-> v]

\* Lines 267-271 in the caller, once the recursive call has returned v:
\* return true, or go on with the next shorter prefix.
engineAfterCall(frame, v) ==
    IF v = "true"
    THEN [frame |-> frame, ret |-> "true"]
    ELSE [frame |-> [frame EXCEPT !.sublen = @ - 1, !.remlen = @ + 1], ret |-> "none"]

Top == stack[Len(stack)]
Pop == SubSeq(stack, 1, Len(stack) - 1)

InitEngine ==
    /\ kDoPreSort = FALSE
    /\ pc = "engine"
    /\ lineNo = 0
    /\ line = <<>>
    /\ fileWords = <<>>
    /\ sizeHash = EmptyMap
    /\ hashReturn = "none"
    /\ fl = flEnter(<<>>)
    /\ printed = <<>>
    /\ word \in EngineWords
    /\ stringSet \in EngineStores(word)
    /\ stack = <<engineFrame(word)>>
    /\ ret = "none"

\* One iteration of the while loop in the running call, up to the return
\* or the recursive call it makes.
EngineIterate ==
    /\ pc = "engine"
    /\ ret = "none"
    /\ Top.sublen > 0
    /\ LET f == [Top EXCEPT !.tries = @ + 1]
           partWord == substr(f.word, 0, f.sublen)
           remainingString == substr(f.word, f.sublen, f.remlen)
       IN  IF partWord \in stringSet
           THEN IF remainingString \in stringSet
                THEN /\ stack' = Append(Pop, f)
                     /\ ret' = "true"
                ELSE /\ stack' = Append(Append(Pop, f), engineFrame(remainingString))
                     /\ ret' = "none"
           ELSE /\ stack' = Append(Pop, [f EXCEPT !.sublen = @ - 1, !.remlen = @ + 1])
                /\ ret' = "none"
    /\ UNCHANGED <<kDoPreSort, pc, lineNo, line, fileWords, stringSet, sizeHash,
                   hashReturn, fl, printed, word>>

\* The while loop ends without a match: the running call returns false.
EngineLoopExit ==
    /\ pc = "engine"
    /\ ret = "none"
    /\ Top.sublen <= 0
    /\ ret' = "false"
    /\ UNCHANGED <<kDoPreSort, pc, lineNo, line, fileWords, stringSet, sizeHash,
                   hashReturn, fl, printed, word, stack>>

\* The running call returns to the call that made it.
EngineReturn ==
    /\ pc = "engine"
    /\ ret # "none"
    /\ Len(stack) > 1
    /\ LET r == engineAfterCall(stack[Len(stack) - 1], ret)
       IN  /\ stack' = Append(SubSeq(stack, 1, Len(stack) - 2), r.frame)
           /\ ret' = r.ret
    /\ UNCHANGED <<kDoPreSort, pc, lineNo, line, fileWords, stringSet, sizeHash,
                   hashReturn, fl, printed, word>>

\* The outermost call returns.
EngineDone ==
    /\ pc = "engine"
    /\ ret # "none"
    /\ Len(stack) = 1
    /\ pc' = "engine_done"
    /\ UNCHANGED <<kDoPreSort, lineNo, line, fileWords, stringSet, sizeHash,
                   hashReturn, fl, printed, word, stack, ret>>

NextEngine == EngineIterate \/ EngineLoopExit \/ EngineReturn \/ EngineDone

SpecEngine == InitEngine /\ [][NextEngine]_vars

\* A running call always takes its next step: the program has one thread
\* and nothing it waits for.
FairSpecEngine == SpecEngine /\ WF_vars(NextEngine)

\* ----------------------------------------------- the greedy-grow alternative
\* The procedure of the header comment (lines 45-52): the same search with
\* the primary substring starting at one character and growing.
RECURSIVE wordIsMadeOfOtherWordsGrow(_, _)
RECURSIVE wordLoopGrow(_, _, _, _)
wordLoopGrow(w, set, sublen, remlen) ==
    IF sublen < Len(w)
    THEN LET partWord == substr(w, 0, sublen)
         IN  IF partWord \in set
             THEN LET remainingString == substr(w, sublen, remlen)
                  IN  IF remainingString \in set
                      THEN TRUE
                      ELSE IF wordIsMadeOfOtherWordsGrow(remainingString, set)
                           THEN TRUE
                           ELSE wordLoopGrow(w, set, sublen + 1, remlen - 1)
             ELSE wordLoopGrow(w, set, sublen + 1, remlen - 1)
    ELSE FALSE

wordIsMadeOfOtherWordsGrow(w, set) == wordLoopGrow(w, set, 1, Len(w) - 1)

\* ------------------------------------------------------------ the claims
\* w can be cut, at the positions `cuts`, into pieces that are all in set.
PiecesAt(w, cuts) ==
    LET b == cuts \cup {0, Len(w)}
    IN  {SubSeq(w, lo + 1, CHOOSE hi \in b : hi > lo /\ \A x \in b : x > lo => hi <= x) :
            lo \in b \ {Len(w)}}

\* w is a concatenation of two or more non-empty members of set.
CanBeCut(w, set) ==
    \E cuts \in SUBSET (1..(Len(w) - 1)) : cuts # {} /\ PiecesAt(w, cuts) \subseteq set

EngineResult == ret = "true"

C9_Bounded ==
    /\ \A i \in 1..Len(stack) :
          /\ Len(stack[i].word) >= 1
          /\ stack[i].tries <= Len(stack[i].word) - 1
          /\ i > 1 => Len(stack[i].word) < Len(stack[i - 1].word)
    /\ stack[1].word = word
    /\ Len(stack) <= Len(word)

\* C9: every call looks up at most L-1 prefixes of its word of length L,
\* every recursive call is on a non-empty word strictly shorter than its
\* caller's, the depth of the recursion never exceeds the length of the
\* original word, and the outermost call returns.
C9_Terminates == []C9_Bounded /\ <>(pc = "engine_done")

\* A word that is not decomposable, tested with the recursion as deep as
\* the word is long.
C9_Witness ==
    /\ Len(word) >= 3
    /\ Len(stack) = Len(word)
    /\ ~CanBeCut(word, stringSet)

\* C10: the greedy-shrink search returns the boolean the greedy-grow search
\* returns, for every word and store.
C10_ShrinkEqualsGrow ==
    pc = "engine_done" =>
        /\ EngineResult <=> wordIsMadeOfOtherWordsGrow(word, stringSet)
        /\ wordIsMadeOfOtherWords(word, stringSet) <=> wordIsMadeOfOtherWordsGrow(word, stringSet)

\* Split k works: the prefix of length k is a member and the rest is a
\* member or decomposable.
SplitWorks(w, set, k) ==
    /\ SubSeq(w, 1, k) \in set
    /\ \/ SubSeq(w, k + 1, Len(w)) \in set
       \/ CanBeCut(SubSeq(w, k + 1, Len(w)), set)

\* A decomposable word that two different prefixes decompose, so that the
\* two orders succeed at different prefixes.
C10_Witness ==
    /\ pc = "engine_done"
    /\ EngineResult
    /\ \E j, k \in 1..(Len(word) - 1) :
          j < k /\ SplitWorks(word, stringSet, j) /\ SplitWorks(word, stringSet, k)

Range(f) == {f[i] : i \in DOMAIN f}

Scanned == hashReturn = "true" /\ pc = "done"

Decomposables == {w \in stringSet : CanBeCut(w, stringSet)}

\* The result line main printed, when it printed one.
Result == printed[Len(printed)]

\* C2: the scan tests every word of the store exactly once and the count it
\* returns (and main prints) is the number of decomposable words of the
\* store, however many of them there are.
C2_EveryWordOnceCountAll ==
    Scanned =>
        /\ Len(fl.tried) = Cardinality(stringSet)
        /\ Range(fl.tried) = stringSet
        /\ fl.countFound = Cardinality(Decomposables)
        /\ Result.kind = "result" /\ Result.count = fl.countFound

\* A finished scan that counted a third decomposable word after the first
\* and the second were recorded.
C2_Witness ==
    /\ Scanned
    /\ fl.secondFound
    /\ fl.countFound >= 3

\* The words of s with the length k, in the order of s.
OfLength(s, k) == LET Is(w) == Len(w) = k IN SelectSeq(s, Is)

IsPrefix(s, t) == Len(s) <= Len(t) /\ SubSeq(t, 1, Len(s)) = s

\* C3: the words are tested by decreasing length, a length's words next to
\* each other and in bucket order; firstWord and secondWord are the first
\* and second decomposable words tested, so firstWord is a longest
\* decomposable word and secondWord is no longer than it; firstWord is
\* empty exactly when the count is 0, secondWord exactly when it is below 2.
C3_LongestFirstOrder ==
    pc \in {"scan", "done"} /\ hashReturn = "true" =>
        LET t   == fl.tried
            Dec(w) == CanBeCut(w, stringSet)
            dec == SelectSeq(t, Dec)
        IN  /\ \A i, j \in 1..Len(t) : i < j => Len(t[i]) >= Len(t[j])
            /\ \A k \in DOMAIN sizeHash : IsPrefix(OfLength(t, k), sizeHash[k])
            /\ fl.countFound = Len(dec)
            /\ fl.firstWord = IF Len(dec) >= 1 THEN dec[1] ELSE <<>>
            /\ fl.secondWord = IF Len(dec) >= 2 THEN dec[2] ELSE <<>>
            /\ (fl.firstWord = <<>>) <=> (fl.countFound = 0)
            /\ (fl.secondWord = <<>>) <=> (fl.countFound < 2)
            /\ Len(fl.secondWord) <= Len(fl.firstWord)
            /\ pc = "done" =>
                  /\ \A k \in DOMAIN sizeHash : OfLength(t, k) = sizeHash[k]
                  /\ \A w \in Decomposables : Len(w) <= Len(fl.firstWord)
                  /\ (stringSet = {}) => (fl.countFound = 0)

\* A finished scan that tested a word that is not decomposable before the
\* first word, and found the second word in a shorter bucket.
C3_Witness ==
    /\ Scanned
    /\ fl.countFound >= 2
    /\ fl.tried[1] # fl.firstWord
    /\ Len(fl.secondWord) < Len(fl.firstWord)

\* C4: no input file makes hashStringFile take its
\* insertion-error path; a line that repeats a stored word is skipped and
\* reading goes on.
C4_NoInsertionError == hashReturn # "false"

NoRepeat(s) == \A i, j \in 1..Len(s) : i # j => s[i] # s[j]

\* C5: at every point of hashStringFile, the return included, the words of
\* the length map are the words of the string set, each in the bucket of
\* its own length and once.
C5_MapMatchesSet ==
    /\ UNION {Range(sizeHash[k]) : k \in DOMAIN sizeHash} = stringSet
    /\ \A k \in DOMAIN sizeHash :
          /\ \A i \in 1..Len(sizeHash[k]) : Len(sizeHash[k][i]) = k
          /\ NoRepeat(sizeHash[k])

\* hashStringFile has returned false on a repeated word, with words of two
\* lengths stored.
C5_Witness ==
    /\ hashReturn = "false"
    /\ line \in stringSet
    /\ Cardinality(DOMAIN sizeHash) >= 2

NoResultPrinted == \A i \in 1..Len(printed) : printed[i].kind # "result"

\* The state once hashStringFile has returned false.
C6_AfterFalse ==
    hashReturn = "false" =>
        /\ pc = "done"
        /\ line \in stringSet
        /\ fl = flEnter(<<>>)
        /\ NoResultPrinted

\* The step that reads a repeated word, and every step after the return.
C6_RepeatStops ==
    /\ (pc = "hash" /\ lineNo' = lineNo + 1 /\ line' \in stringSet)
          => (hashReturn' = "false" /\ UNCHANGED storeVars)
    /\ (hashReturn = "false") => UNCHANGED <<lineNo, fileWords, stringSet, sizeHash, printed>>

\* C6: a line whose word is already in the set makes hashStringFile return
\* false at that line; after that main has run no scan and printed no
\* result line, and nothing more is read or stored.
C6_FailureSkipsScan == []C6_AfterFalse /\ [][C6_RepeatStops]_vars

\* hashStringFile returned false before the last line the file may have.
C6_Witness ==
    /\ hashReturn = "false"
    /\ lineNo < MaxLines
    /\ stringSet # {}

\* The map as hashStringFile built it: each bucket in first-seen order.
BuiltMap == [k \in DOMAIN sizeHash |-> OfLength(fileWords, k)]

SameResult(r) ==
    /\ r.count = fl.countFound
    /\ r.firstWord = fl.firstWord
    /\ r.secondWord = fl.secondWord

\* C7: a second call of findLongestWordsOfWords on the store the first call
\* left returns the count and the two words the first call returned, with
\* the pre-sort flag on and off.
C7_SecondScanSame ==
    Scanned => SameResult(findLongestWordsOfWords(stringSet, sizeHash, kDoPreSort))

\* A first scan with the flag on that reordered a bucket holding both the
\* first and the second word.
C7_Witness ==
    /\ Scanned
    /\ kDoPreSort
    /\ sizeHash # BuiltMap
    /\ fl.secondFound
    /\ Len(fl.firstWord) = Len(fl.secondWord)

\* a is before b in lexicographic order.
LexLess(a, b) ==
    \E i \in 1..(Len(a) + 1) :
        /\ i <= Len(b)
        /\ SubSeq(a, 1, i - 1) = SubSeq(b, 1, i - 1)
        /\ (i = Len(a) + 1 \/ a[i] < b[i])

LexSorted(s) == \A i, j \in 1..Len(s) : i < j => LexLess(s[i], s[j])

\* The files that hold the lines of `lines` in another order.
Reordered(lines) ==
    {[i \in 1..Len(lines) |-> lines[p[i]]] : p \in Permutations(1..Len(lines))}

\* The whole program on a file: the result of the scan of its store.
Program(lines, doPreSort) ==
    LET h == hashStringFile(lines)
    IN  findLongestWordsOfWords(h.stringSet, h.sizeHash, doPreSort)

\* C8: with the flag on, every bucket is in lexicographic order while it is
\* scanned, and a file with the same words in any other line order gives
\* the same count, first word and second word; with the flag off every
\* bucket is scanned in first-seen order and the other file gives the same
\* count.
C8_OrderIndependence ==
    pc \in {"scan", "done"} /\ hashReturn = "true" =>
        /\ kDoPreSort => \A k \in DOMAIN sizeHash : LexSorted(sizeHash[k])
        /\ ~kDoPreSort => sizeHash = BuiltMap
        /\ pc = "done" =>
              \A other \in Reordered(fileWords) :
                  LET r == Program(other, kDoPreSort)
                  IN  IF kDoPreSort THEN SameResult(r) ELSE r.count = fl.countFound

\* A scan with the flag on of a file that, scanned with the flag off,
\* reports another first word.
C8_Witness ==
    /\ Scanned
    /\ kDoPreSort
    /\ fl.countFound >= 2
    /\ Program(fileWords, FALSE).firstWord # fl.firstWord

\* The length map of the words read from the file, each bucket in
\* first-seen order.
FileMap ==
    [k \in {Len(w) : w \in Range(fileWords)} |-> OfLength(fileWords, k)]

\* In findLongestWordsOfWords, from the call to the return.
InScan == pc \in {"call", "scan"}

\* C11 as claimed: no step of findLongestWordsOfWords changes the string
\* set or the length map, whatever the pre-sort flag.
C11_ScanLeavesStore == [][InScan => UNCHANGED storeVars]_vars

\* What a step of the scan keeps of the store: the set, the keys and the
\* words of every bucket; the order of every bucket too when the flag is
\* off, and when it is on the bucket is left in lexicographic order.
C11_StepKeeps ==
    InScan =>
        /\ stringSet' = stringSet
        /\ DOMAIN sizeHash' = DOMAIN sizeHash
        /\ \A k \in DOMAIN sizeHash :
              /\ Range(sizeHash'[k]) = Range(sizeHash[k])
              /\ Len(sizeHash'[k]) = Len(sizeHash[k])
              /\ kDoPreSort => LexSorted(sizeHash'[k])
        /\ ~kDoPreSort => sizeHash' = sizeHash

\* The store before the scan is the store hashStringFile built, and after
\* the scan it differs from it at most in the order inside the buckets,
\* and in nothing when the flag is off.
C11_StoreOfFile ==
    hashReturn = "true" =>
        /\ stringSet = Range(fileWords)
        /\ DOMAIN sizeHash = DOMAIN FileMap
        /\ \A k \in DOMAIN sizeHash : Range(sizeHash[k]) = Range(FileMap[k])
        /\ (pc = "call" \/ ~kDoPreSort) => sizeHash = FileMap

\* C11, amended: the scan leaves the string set, the length keys and the
\* words of every bucket unchanged; with the pre-sort flag off every bucket
\* keeps its order, with the flag on every bucket is put in lexicographic
\* order.
C11_ScanKeepsWords == []C11_StoreOfFile /\ [][C11_StepKeeps]_vars

\* A finished scan with the flag on that left a bucket in another order
\* than hashStringFile built it, in a store of two or more lengths.
C11_Witness ==
    /\ Scanned
    /\ kDoPreSort
    /\ Cardinality(DOMAIN sizeHash) >= 2
    /\ \E k \in DOMAIN sizeHash : sizeHash[k] # FileMap[k]

\* ------------------------------------------- cleanWord on any line of a file
\* The characters of a line as getline returns it (the line feed that ends
\* the line is removed by getline): letters in both cases, spaces, and
\* carriage returns.
RawChars == {Letter.a, Letter.b, toUpperString(<<Letter.a>>)[1], SPACE, CR}

RawLines == UNION {[1..n -> RawChars] : n \in 0..MaxRaw}

\* hashStringFile has read its first line; `line` holds it as read.
InitClean ==
    /\ kDoPreSort = FALSE
    /\ pc = "getline"
    /\ lineNo = 1
    /\ line \in RawLines
    /\ fileWords = <<>>
    /\ stringSet = {}
    /\ sizeHash = EmptyMap
    /\ hashReturn = "none"
    /\ fl = flEnter(<<>>)
    /\ printed = <<>>
    /\ word = <<>>
    /\ stack = <<>>
    /\ ret = "none"

\* The body of the getline loop on that line: cleanWord(line), then the
\* insertion of a line that is not empty.
CleanLine ==
    /\ pc = "getline"
    /\ LET r == hashLine(stringSet, sizeHash, line)
           cleaned == cleanWord(line)
       IN  /\ line' = cleaned
           /\ stringSet' = r.stringSet
           /\ sizeHash' = r.sizeHash
           /\ fileWords' = IF Len(cleaned) > 0 THEN Append(fileWords, cleaned) ELSE fileWords
    /\ pc' = "cleaned"
    /\ UNCHANGED <<kDoPreSort, lineNo, hashReturn, fl, printed>>
    /\ UNCHANGED engineVars

NextClean == CleanLine

SpecClean == InitClean /\ [][NextClean]_vars

\* The line after cleanWord: no space in front, no space, carriage return
\* or line feed at the end, no upper-case letter.
C12_Cleaned ==
    pc = "cleaned" =>
        /\ line # <<>> => line[1] # SPACE /\ line[Len(line)] \notin {SPACE, CR, LF}
        /\ \A i \in 1..Len(line) : ~(line[i] >= 65 /\ line[i] <= 90)

\* A line of spaces and line-ending characters only is cleaned to the
\* empty string and nothing is stored for it.
C12_BlankDropped ==
    (pc = "getline" /\ \A i \in 1..Len(line) : line[i] \in {SPACE, CR, LF})
        => (line' = <<>> /\ UNCHANGED storeVars)

\* C12: for every line, the string cleanWord produces does not start with
\* a space, does not end with a space, a carriage return or a line feed,
\* and has no upper-case letter; a line made only of spaces and
\* line-ending characters becomes the empty string and is not stored.
C12_CleanWordOutput == []C12_Cleaned /\ [][C12_BlankDropped]_vars

====
